---- MODULE Spec2Model ----
(***************************************************************************)
(* The vision-overlay client of nex/ui/static/js/nex-history.js (the third *)
(* IIFE, "NEX VISION"): camera start/stop, the vision WebSocket and its    *)
(* handlers, the capture timer (startSendLoop) and the HUD loop, as they   *)
(* run on the browser's single event loop.  Every action is one task of    *)
(* the event loop (an event handler, a timer callback, or the resumption   *)
(* of an async function up to its next await).                             *)
(*                                                                         *)
(* Each call of startCamera is a coroutine c in Starts.  A coroutine       *)
(* acquires at most one MediaStream, creates at most one WebSocket and one *)
(* interval timer and one HUD loop, so these objects carry the id of the   *)
(* coroutine that made them; 0 is JavaScript's null.                       *)
(*                                                                         *)
(* Spec explores the session protocol (overlapping starts, stale sockets)  *)
(* with one plain result payload; SpecHUD explores the payloads of the     *)
(* results, the mode buttons and the renderer with starts that do not      *)
(* overlap.  SpecView also follows the view that is shown; SpecCtl the     *)
(* confidence slider and the content of the frames; SpecFps the clock of   *)
(* the fps window; SpecStats the confidences of the items; SpecDraw the    *)
(* geometry of the overlay canvas.  All run the same handlers.             *)
(*                                                                         *)
(* SpecFeed is the conversation feed of the same file (the second IIFE):   *)
(* its entries list, the thinking entry, and its window-event listeners.   *)
(*                                                                         *)
(* SpecWin is the main process of the desktop shell (desktop/src/main/     *)
(* window.ts and preload.ts): the BrowserWindow, its creation by           *)
(* toggleWindow, and the listeners of the 'toggle-fullscreen' channel.     *)
(***************************************************************************)
EXTENDS Integers, Sequences, FiniteSets, TLC

\* Number of startCamera calls explored.
MaxStarts == 2
\* Number of frame messages sent that is explored.
MaxFrames == 2
\* Longest detections/classifications list of a result that is explored.
MaxItems == 2
\* Number of BrowserWindows created that is explored.
MaxWindows == 3
\* Number of 'toggle-fullscreen' messages that is explored.
MaxIpc == 4
\* Number of feed entries created that is explored.
MaxIds == 8
\* Longest time since lastFpsTime that is told apart, in ms.
MaxAge == 1500
\* Length of the fps window in ms.
FpsWindow == 1000
\* The clock advances in steps of half a window.
ClockStep == FpsWindow \div 2

NULL == 0
Starts == 1..MaxStarts

VARIABLES
    \* ---- program state (nex-history.js:535-542) ----
    stream,            \* let stream: NULL or the id of a MediaStream
    ws,                \* let ws: NULL or the id of a WebSocket
    active,            \* let active
    awaitingResponse,  \* let awaitingResponse
    sendTimer,         \* let sendTimer: NULL or the id of an interval timer
    rafId,             \* let rafId: NULL or the HUD loop of the last request
    mode,              \* let mode: the mode the user selected
    confThreshold,     \* let confThreshold, in hundredths
    currentDetections, \* let currentDetections
    currentMode,       \* let currentMode
    frameCount,        \* let frameCount
    currentFps,        \* let currentFps
    lastInferenceMs,   \* let lastInferenceMs
    sinceReset,        \* performance.now() - lastFpsTime in ms (the clock is
                       \* followed by SpecFps only)
    \* ---- the stats panel ----
    fpsEl,             \* fpsEl.textContent
    inferenceEl,       \* inferenceEl.textContent (the number before "ms")
    objectsEl,         \* objectsEl.textContent
    confidenceEl,      \* confidenceEl.textContent (the number before "%")
    \* ---- the overlay (followed by SpecDraw only) ----
    bbox,              \* det.bbox of the "box" items, in tenths
    parentSize,        \* canvas.parentElement: <<clientWidth, clientHeight>>
    canvasSize,        \* <<canvas.width, canvas.height>>
    boxRect,           \* the rectangle last filled for a detection, as
                       \* <<x1, y1, x2, y2>> in tenths of a pixel
    \* ---- the async function startCamera ----
    pc,                \* pc[c]: where coroutine c is suspended
    \* ---- browser objects ----
    readyState,        \* readyState[s] of WebSocket s ("none": not created)
    established,       \* sockets whose connection was established
    liveTracks,        \* streams whose tracks have not been stopped
    timers,            \* interval timers that have not been cleared
    rafPending,        \* HUD loops with a requested frame, in request order
    \* ---- the wire and the service ----
    sent,              \* sent[s]: the messages the client sent on socket s
    pendingReq,        \* pendingReq[s]: frames on s the service has not answered
    lastFrame,         \* mode and confidence of the frame message sent last
    \* ---- the conversation feed (the second IIFE) ----
    entries,           \* let entries: the entries, as [id, type]
    activeThinking,    \* let activeThinking: NULL or the id of an entry
    idCount,           \* number of ids generateId() has returned
    feedEls,           \* number of children of the feed element
    currentServicesUsed, \* let currentServicesUsed, as the set of its names
    \* ---- the desktop window (desktop/src/main/window.ts) ----
    mainWindow,        \* let mainWindow: NULL or the id of a BrowserWindow
    isVisible,         \* mainWindow.isVisible()
    isFullScreen,      \* mainWindow.isFullScreen()
    isMaximized,       \* mainWindow.isMaximized()
    ipcListeners,      \* number of listeners of ipcMain on 'toggle-fullscreen'
    windowsCreated,    \* number of BrowserWindows constructed
    ipcSent,           \* number of 'toggle-fullscreen' messages sent
    \* ---- history ----
    stopped,           \* stopCamera has run and start was not invoked since
    shownView,         \* the view shown (followed by SpecView only)
    lastResult         \* the vision.result whose items were last put in the
                       \* detection list, NoResult once the list is cleared

\* Detection state, stats and the stats panel.
hudVars == <<mode, currentDetections, currentMode, frameCount, currentFps,
             lastInferenceMs, sinceReset, fpsEl, inferenceEl, objectsEl,
             confidenceEl, lastResult>>

\* The overlay surface and what is drawn on it.
drawVars == <<bbox, parentSize, canvasSize, boxRect>>

\* The conversation feed.
feedVars ==
    <<entries, activeThinking, idCount, feedEls, currentServicesUsed>>

\* The vision module.
visionVars == <<stream, ws, active, awaitingResponse, sendTimer, rafId, pc,
                readyState, established, liveTracks, timers, rafPending, sent,
                pendingReq, stopped, shownView, confThreshold, lastFrame,
                hudVars, drawVars>>

\* State of the desktop main process.
winVars == <<mainWindow, isVisible, isFullScreen, isMaximized, ipcListeners,
             windowsCreated, ipcSent>>

vars == <<visionVars, feedVars, winVars>>

progVars == <<stream, ws, active, awaitingResponse, sendTimer, rafId>>

\* The kinds of inbound text a socket can deliver: a vision.result, JSON of
\* another type, and text JSON.parse rejects.
MsgKinds == {"result", "other", "garbage"}

Modes == {"detect", "classify"}

\* The views of the application: the vision view and another one.
Views == {"vision", "dashboard"}

\* The items of a result's list, by what the code reads of them: "box" has
\* class, confidence and a bbox of four numbers; "plain" has class and
\* confidence only (a classification, or a detection without bbox); "null"
\* is not an object at all.
ItemShapes == {"box", "plain", "null"}
ItemLists == UNION {[1..n -> ItemShapes] : n \in 0..MaxItems}

\* inference_ms of the results explored.
Latencies == {5, 9}

\* Confidences of items that are explored, in hundredths.
Confidences == {20, 45, 90}

\* Inbound messages.  For a result, items is the field handleVisionResult
\* reads for its mode (classifications for classify, else detections); an
\* absent field reads as the empty list; conf[i] is the confidence of item
\* i where that item has one.
Result(m, ms, its, cs) ==
    [type |-> "result", mode |-> m, inference_ms |-> ms, items |-> its,
     conf |-> cs]
\* The results of SpecHUD: every item that has a confidence has 0.90.
Results == {Result(m, ms, its, [i \in DOMAIN its |-> 90]) :
              m \in Modes, ms \in Latencies, its \in ItemLists}
OtherMsg == [type |-> "other", mode |-> "detect", inference_ms |-> 0,
             items |-> <<>>, conf |-> <<>>]
GarbageMsg == [type |-> "garbage", mode |-> "detect", inference_ms |-> 0,
               items |-> <<>>, conf |-> <<>>]
Msgs == Results \cup {OtherMsg, GarbageMsg}
\* The one result payload of Spec: detect mode, no detections.
PlainResult == Result("detect", 5, <<>>, <<>>)
\* The inbound messages of Spec.
SpecMsgs == {PlainResult, OtherMsg, GarbageMsg}
\* A detect result with one well-formed detection.
BoxResult == Result("detect", 9, <<"box">>, <<90>>)
\* The inbound messages of SpecCtl.
CtlMsgs == {PlainResult, BoxResult}
\* The inbound messages of SpecStats: results of both modes whose items are
\* all well formed, with every choice of confidences.
StatMsgs ==
    UNION {{Result(m, 5,
                   [i \in 1..n |-> IF m = "classify" THEN "plain" ELSE "box"],
                   cs) : m \in Modes, cs \in [1..n -> Confidences]} :
             n \in 0..MaxItems}
\* Positions of the confidence slider that are explored, in percent.
SliderValues == {25, 60}
NoResult == [type |-> "none", mode |-> "detect", inference_ms |-> 0,
             items |-> <<>>, conf |-> <<>>]

\* No frame message was sent yet.
NoFrame == [mode |-> "none", confidence |-> 0]

FramesOn(s) == Len(SelectSeq(sent[s], LAMBDA m : m = "frame"))
AuthsOn(s) == Len(SelectSeq(sent[s], LAMBDA m : m = "auth"))
RECURSIVE FramesUpTo(_)
FramesUpTo(n) == IF n = 0 THEN 0 ELSE FramesOn(n) + FramesUpTo(n - 1)
\* Frame messages sent so far, on all sockets.
framesSent == FramesUpTo(MaxStarts)

\* Size of the frames captured and sent.
CAPTURE_W == 640
CAPTURE_H == 480

\* No box has been drawn.
NoRect == <<>>
\* Normalized coordinates explored, in tenths, and the bboxes made of them.
Tenths == {1, 5, 6}
BBoxes == {b \in Tenths \X Tenths \X Tenths \X Tenths :
             b[1] < b[3] /\ b[2] < b[4]}
\* Sizes of the overlay's container explored.
Sizes == {<<640, 480>>, <<1280, 720>>}

\* The vision module after it was loaded.
InitSession ==
    /\ stream = NULL
    /\ ws = NULL
    /\ active = FALSE
    /\ awaitingResponse = FALSE
    /\ sendTimer = NULL
    /\ rafId = NULL
    /\ pc = [c \in Starts |-> "idle"]
    /\ readyState = [s \in Starts |-> "none"]
    /\ established = {}
    /\ liveTracks = {}
    /\ timers = {}
    /\ rafPending = <<>>
    /\ sent = [s \in Starts |-> <<>>]
    /\ pendingReq = [s \in Starts |-> 0]
    /\ stopped = FALSE
    /\ shownView = "vision"
    /\ confThreshold = 25
    /\ lastFrame = NoFrame
    /\ mode = "detect"
    /\ currentDetections = <<>>
    /\ currentMode = "detect"
    /\ frameCount = 0
    /\ currentFps = 0
    /\ lastInferenceMs = 0
    /\ sinceReset = 0
    /\ fpsEl = 0
    /\ inferenceEl = 0
    /\ objectsEl = 0
    /\ confidenceEl = 0
    /\ lastResult = NoResult
    /\ canvasSize = <<300, 150>>
    /\ boxRect = NoRect
    /\ entries = <<>>
    /\ activeThinking = NULL
    /\ idCount = 0
    /\ feedEls = 0
    /\ currentServicesUsed = {}
    /\ mainWindow = NULL
    /\ isVisible = FALSE
    /\ isFullScreen = FALSE
    /\ isMaximized = FALSE
    /\ ipcListeners = 0
    /\ windowsCreated = 0
    /\ ipcSent = 0

Init ==
    /\ InitSession
    /\ bbox = <<1, 1, 5, 6>>
    /\ parentSize = <<640, 480>>

\* ---------------------------------------------------------------------
\* WebSocket primitives (the browser's side of ws.close() and ws.send()).

\* s.close(): a connecting or open socket starts closing; no effect on a
\* closing or closed one.
Close(rs, s) ==
    IF rs[s] \in {"CONNECTING", "OPEN"} THEN [rs EXCEPT ![s] = "CLOSING"] ELSE rs

\* <ref>.send(m) with ready states rs: throws on null (TypeError) and on a
\* connecting socket (InvalidStateError), transmits on an open one, and
\* silently discards on a closing or closed one.
Send(rs, ref, m) ==
    IF ref # NULL /\ rs[ref] = "OPEN"
    THEN [sent EXCEPT ![ref] = Append(@, m)]
    ELSE sent

\* cancelAnimationFrame(h): the request of loop h leaves the list.
CancelFrame(q, h) == SelectSeq(q, LAMBDA c : c # h)

\* ---------------------------------------------------------------------
\* stopCamera()

stopCamera ==
    /\ active' = FALSE
    /\ timers' = IF sendTimer # NULL THEN timers \ {sendTimer} ELSE timers
    /\ sendTimer' = NULL
    /\ rafPending' = IF rafId # NULL THEN CancelFrame(rafPending, rafId)
                                     ELSE rafPending
    /\ rafId' = NULL
    /\ liveTracks' = IF stream # NULL THEN liveTracks \ {stream} ELSE liveTracks
    /\ stream' = NULL
    /\ readyState' = IF ws # NULL THEN Close(readyState, ws) ELSE readyState
    /\ ws' = NULL
    /\ stopped' = TRUE
    /\ currentDetections' = <<>>
    /\ fpsEl' = 0
    /\ inferenceEl' = 0
    /\ objectsEl' = 0
    /\ confidenceEl' = 0
    /\ boxRect' = NoRect
    /\ lastResult' = NoResult
    /\ UNCHANGED <<awaitingResponse, pc, established, sent, pendingReq, mode,
                   currentMode, frameCount, currentFps, lastInferenceMs,
                   sinceReset, confThreshold, lastFrame, bbox, parentSize,
                   canvasSize, feedVars, winVars>>

\* ---------------------------------------------------------------------
\* startBtn click: stopCamera() when active, else startCamera(), which
\* runs to its first await (getUserMedia).

StartInvoked(c) ==
    /\ pc[c] = "idle"
    /\ \A d \in Starts : d < c => pc[d] # "idle"
    /\ pc' = [pc EXCEPT ![c] = "perm"]
    /\ stopped' = FALSE
    /\ UNCHANGED <<progVars, readyState, established, liveTracks, timers,
                   rafPending, sent, pendingReq, shownView, confThreshold,
                   lastFrame, hudVars, drawVars, feedVars, winVars>>

ClickWhenInactive == ~active /\ \E c \in Starts : StartInvoked(c)

ClickWhenActive == active /\ stopCamera /\ UNCHANGED shownView

\* window 'nex:viewchange' listener of the vision module; it does nothing
\* for the vision view or while inactive.
ViewChange(view) ==
    IF view # "vision" /\ active
    THEN stopCamera
    ELSE UNCHANGED <<progVars, pc, readyState, established, liveTracks,
                     timers, rafPending, sent, pendingReq, stopped,
                     confThreshold, lastFrame, hudVars, drawVars, feedVars,
                     winVars>>

\* ---------------------------------------------------------------------
\* startCamera() resumed after getUserMedia, up to the await of fetch()
\* inside connectVisionWS().

GetUserMediaResolved(c) ==
    /\ pc[c] = "perm"
    /\ stream' = c
    /\ liveTracks' = liveTracks \cup {c}
    /\ active' = TRUE
    /\ pc' = [pc EXCEPT ![c] = "token"]
    /\ UNCHANGED <<ws, awaitingResponse, sendTimer, rafId, readyState,
                   established, timers, rafPending, sent, pendingReq,
                   stopped, shownView, confThreshold, lastFrame, hudVars,
                   drawVars, feedVars, winVars>>

\* A rejection that is not caught before the loops are started.
GetUserMediaRejected_StartsLoops(c) ==
    /\ pc[c] = "perm"
    /\ sendTimer' = c
    /\ timers' = timers \cup {c}
    /\ rafId' = c
    /\ rafPending' = Append(rafPending, c)
    /\ pc' = [pc EXCEPT ![c] = "done"]
    /\ UNCHANGED <<stream, ws, active, awaitingResponse, readyState,
                   established, liveTracks, sent, pendingReq, stopped,
                   shownView, confThreshold, lastFrame, hudVars, drawVars,
                   feedVars, winVars>>

\* getUserMedia rejected: the catch block.
GetUserMediaRejected(c) ==
    /\ pc[c] = "perm"
    /\ pc' = [pc EXCEPT ![c] = "done"]
    /\ UNCHANGED <<progVars, readyState, established, liveTracks, timers,
                   rafPending, sent, pendingReq, stopped, shownView,
                   confThreshold, lastFrame, hudVars, drawVars, feedVars,
                   winVars>>

\* startSendLoop(); startHUDLoop(): run by startCamera once
\* connectVisionWS() has returned, however it returned.
StartLoops(c) ==
    /\ sendTimer' = c
    /\ timers' = timers \cup {c}
    /\ rafId' = c
    /\ rafPending' = Append(rafPending, c)

\* connectVisionWS() resumed with the token: new WebSocket, handlers set;
\* then the rest of startCamera().
TokenFetched(c) ==
    /\ pc[c] = "token"
    /\ ws' = c
    /\ readyState' = [readyState EXCEPT ![c] = "CONNECTING"]
    /\ StartLoops(c)
    /\ pc' = [pc EXCEPT ![c] = "done"]
    /\ UNCHANGED <<stream, active, awaitingResponse, established, liveTracks,
                   sent, pendingReq, stopped, shownView, confThreshold,
                   lastFrame, hudVars, drawVars, feedVars, winVars>>

\* connectVisionWS() resumed with a failed fetch (or new WebSocket threw):
\* it returns normally, so startCamera() still starts both loops.
TokenFailed(c) ==
    /\ pc[c] = "token"
    /\ StartLoops(c)
    /\ pc' = [pc EXCEPT ![c] = "done"]
    /\ UNCHANGED <<stream, ws, active, awaitingResponse, readyState,
                   established, liveTracks, sent, pendingReq, stopped,
                   shownView, confThreshold, lastFrame, hudVars, drawVars,
                   feedVars, winVars>>

\* ---------------------------------------------------------------------
\* Socket events.  The handlers are closures over the variable ws, not
\* over the socket they were set on.

\* The connection of s is established: readyState OPEN, then onopen.
SocketOpen(s) ==
    /\ readyState[s] = "CONNECTING"
    /\ readyState' = [readyState EXCEPT ![s] = "OPEN"]
    /\ established' = established \cup {s}
    /\ sent' = Send(readyState', ws, "auth")
    /\ UNCHANGED <<progVars, pc, liveTracks, timers, rafPending, pendingReq,
                   stopped, shownView, confThreshold, lastFrame, hudVars,
                   drawVars, feedVars, winVars>>

\* A frame message that carries the threshold the module starts with.
Frame_InitialThreshold == [mode |-> mode, confidence |-> 25]

\* What the frame message built by a tick carries besides the image.
Frame == [mode |-> mode, confidence |-> confThreshold]

\* handleVisionResult(msg); elapsed: performance.now() is at least 1000 ms
\* past lastFpsTime.  A null item makes .map (classify) or .reduce (detect)
\* throw a TypeError, which leaves the function at that statement; the
\* assignments made before it stay.
HasNull(items) == \E i \in DOMAIN items : items[i] = "null"
\* (msg.classifications || []).map(c => ({class, confidence}))
Classified(items) == [i \in DOMAIN items |-> "plain"]

\* currentDetections.reduce((s, d) => s + d.confidence, 0) over the first k
\* items, whose confidences are cs.
RECURSIVE reduce(_, _)
reduce(cs, k) == IF k = 0 THEN 0 ELSE reduce(cs, k - 1) + cs[k]

\* An average that is not divided by the number of items.
avgConf_NotDivided(cs) == <<reduce(cs, Len(cs)), 1>>

\* avgConf * 100 as the fraction <<numerator, denominator>>.
avgConf(cs) ==
    LET objCount == Len(cs)
    IN  IF objCount > 0 THEN <<reduce(cs, objCount), objCount>> ELSE <<0, 1>>

\* Math.round of the fraction q (not negative): halves round up.
MathRound(q) == (2 * q[1] + q[2]) \div (2 * q[2])

handleVisionResult(msg, elapsed) ==
    /\ currentMode' = msg.mode
    /\ lastInferenceMs' = msg.inference_ms
    /\ IF msg.mode = "classify" /\ HasNull(msg.items)
       THEN UNCHANGED <<currentDetections, frameCount, currentFps,
                        sinceReset, fpsEl, inferenceEl, objectsEl,
                        confidenceEl, lastResult>>
       ELSE /\ currentDetections' = IF msg.mode = "classify"
                                     THEN Classified(msg.items)
                                     ELSE msg.items
            /\ lastResult' = msg
            /\ frameCount' = IF elapsed THEN 0 ELSE frameCount + 1
            /\ currentFps' = IF elapsed THEN frameCount + 1 ELSE currentFps
            /\ sinceReset' = IF elapsed THEN 0 ELSE sinceReset
            /\ IF HasNull(msg.items)
               THEN UNCHANGED <<fpsEl, inferenceEl, objectsEl, confidenceEl>>
               ELSE /\ fpsEl' = currentFps'
                    /\ inferenceEl' = msg.inference_ms
                    /\ objectsEl' = Len(currentDetections')
                    /\ confidenceEl' = MathRound(avgConf(msg.conf))
    /\ UNCHANGED mode

\* onmessage that forgets to release the backpressure slot.
onmessage_NoRelease(s, msg, elapsed) ==
    /\ readyState[s] = "OPEN"
    /\ msg.type = "result" => pendingReq[s] > 0
    /\ pendingReq' = IF msg.type = "result"
                     THEN [pendingReq EXCEPT ![s] = @ - 1]
                     ELSE pendingReq
    /\ IF msg.type = "result" THEN handleVisionResult(msg, elapsed)
                              ELSE UNCHANGED hudVars
    /\ UNCHANGED <<stream, ws, active, awaitingResponse, sendTimer, rafId,
                   pc, readyState, established, liveTracks, timers,
                   rafPending, sent, stopped, shownView, confThreshold,
                   lastFrame, drawVars, feedVars, winVars>>

\* onmessage that sends the frame of a dropped tick as soon as a result
\* arrives (a deferred send).
onmessage_Deferred(s, msg, elapsed) ==
    /\ readyState[s] = "OPEN"
    /\ msg.type = "result" => pendingReq[s] > 0
    /\ IF msg.type = "result" THEN handleVisionResult(msg, elapsed)
                              ELSE UNCHANGED hudVars
    /\ IF msg.type = "result" /\ active /\ ws = s /\ framesSent < MaxFrames
       THEN /\ sent' = Send(readyState, ws, "frame")
            /\ lastFrame' = Frame
            /\ UNCHANGED pendingReq
            /\ awaitingResponse' = TRUE
       ELSE /\ pendingReq' = IF msg.type = "result"
                                THEN [pendingReq EXCEPT ![s] = @ - 1]
                                ELSE pendingReq
            /\ awaitingResponse' = FALSE
            /\ UNCHANGED <<sent, lastFrame>>
    /\ UNCHANGED <<stream, ws, active, sendTimer, rafId, pc, readyState,
                   established, liveTracks, timers, rafPending, stopped,
                   shownView, confThreshold, drawVars, feedVars, winVars>>

\* onmessage without the type test: every message that parses is handed to
\* handleVisionResult.
onmessage_AnyType(s, msg, elapsed) ==
    /\ readyState[s] = "OPEN"
    /\ msg.type = "result" => pendingReq[s] > 0
    /\ pendingReq' = IF msg.type = "result"
                     THEN [pendingReq EXCEPT ![s] = @ - 1]
                     ELSE pendingReq
    /\ IF msg.type # "garbage" THEN handleVisionResult(msg, elapsed)
                               ELSE UNCHANGED hudVars
    /\ awaitingResponse' = FALSE
    /\ UNCHANGED <<stream, ws, active, sendTimer, rafId, pc, readyState,
                   established, liveTracks, timers, rafPending, sent,
                   stopped, shownView, confThreshold, lastFrame, drawVars,
                   feedVars, winVars>>

\* ws.onmessage for the message msg delivered on s (messages are only
\* delivered while s is OPEN): JSON.parse rejects garbage, a vision.result
\* goes to handleVisionResult, whose exceptions are swallowed, and the
\* backpressure slot is released whatever happened.  The service answers a
\* frame it received with one vision.result.
onmessage(s, msg, elapsed) ==
    /\ readyState[s] = "OPEN"
    /\ msg.type = "result" => pendingReq[s] > 0
    /\ pendingReq' = IF msg.type = "result"
                     THEN [pendingReq EXCEPT ![s] = @ - 1]
                     ELSE pendingReq
    /\ IF msg.type = "result" THEN handleVisionResult(msg, elapsed)
                              ELSE UNCHANGED hudVars
    /\ awaitingResponse' = FALSE
    /\ UNCHANGED <<stream, ws, active, sendTimer, rafId, pc, readyState,
                   established, liveTracks, timers, rafPending, sent,
                   stopped, shownView, confThreshold, lastFrame, drawVars,
                   feedVars, winVars>>

\* onclose that reconnects: the socket reference is kept and the socket is
\* put back to CONNECTING.
SocketClosed_Reconnect(s, failed) ==
    /\ readyState[s] \in {"CONNECTING", "OPEN", "CLOSING"}
    /\ s \notin established => failed
    /\ readyState' = [readyState EXCEPT ![s] = IF ws = s THEN "CONNECTING"
                                                          ELSE "CLOSED"]
    /\ awaitingResponse' = FALSE
    /\ pendingReq' = [pendingReq EXCEPT ![s] = 0]
    /\ UNCHANGED <<stream, ws, active, sendTimer, rafId, pc, established,
                   liveTracks, timers, rafPending, sent, stopped, shownView,
                   confThreshold, lastFrame, hudVars, drawVars, feedVars,
                   winVars>>

\* The connection of s is closed: readyState CLOSED, then (when the
\* connection failed) onerror, then onclose, all in one task.  A connection
\* that was never established always counts as failed.  The requests the
\* service had not answered on s die with the connection.
SocketClosed(s, failed) ==
    /\ readyState[s] \in {"CONNECTING", "OPEN", "CLOSING"}
    /\ s \notin established => failed
    /\ LET rs1 == [readyState EXCEPT ![s] = "CLOSED"]
       IN  readyState' = IF failed /\ ws # NULL THEN Close(rs1, ws) ELSE rs1
    /\ ws' = NULL
    /\ awaitingResponse' = FALSE
    /\ pendingReq' = [pendingReq EXCEPT ![s] = 0]
    /\ UNCHANGED <<stream, active, sendTimer, rafId, pc, established,
                   liveTracks, timers, rafPending, sent, stopped, shownView,
                   confThreshold, lastFrame, hudVars, drawVars, feedVars,
                   winVars>>

\* ---------------------------------------------------------------------
\* The setInterval callback of startSendLoop(), for a timer t not cleared.

\* A tick whose guard does not test awaitingResponse.
Tick_NoBackpressure(t) ==
    /\ t \in timers
    /\ framesSent < MaxFrames
    /\ IF ~active \/ ws = NULL \/ readyState[ws] # "OPEN"
       THEN UNCHANGED <<sent, pendingReq, awaitingResponse, lastFrame>>
       ELSE /\ sent' = Send(readyState, ws, "frame")
            /\ lastFrame' = Frame
            /\ pendingReq' = [pendingReq EXCEPT ![ws] = @ + 1]
            /\ awaitingResponse' = TRUE
    /\ UNCHANGED <<stream, ws, active, sendTimer, rafId, pc, readyState,
                   established, liveTracks, timers, rafPending, stopped,
                   shownView, confThreshold, hudVars, drawVars, feedVars,
                   winVars>>

\* A tick that gives an outstanding request a deadline: a tick that finds
\* the slot occupied treats it as a transport error, frees the slot and
\* closes the channel.
Tick_Deadline(t) ==
    /\ t \in timers
    /\ framesSent < MaxFrames
    /\ IF ~active \/ ws = NULL \/ readyState[ws] # "OPEN"
       THEN UNCHANGED <<sent, pendingReq, awaitingResponse, readyState,
                        lastFrame>>
       ELSE IF awaitingResponse
            THEN /\ awaitingResponse' = FALSE
                 /\ readyState' = Close(readyState, ws)
                 /\ UNCHANGED <<sent, pendingReq, lastFrame>>
            ELSE /\ sent' = Send(readyState, ws, "frame")
                 /\ lastFrame' = Frame
                 /\ pendingReq' = [pendingReq EXCEPT ![ws] = @ + 1]
                 /\ awaitingResponse' = TRUE
                 /\ UNCHANGED readyState
    /\ UNCHANGED <<stream, ws, active, sendTimer, rafId, pc, established,
                   liveTracks, timers, rafPending, stopped, shownView,
                   confThreshold, hudVars, drawVars, feedVars, winVars>>

Tick(t) ==
    /\ t \in timers
    /\ framesSent < MaxFrames
    /\ IF ~active \/ ws = NULL \/ readyState[ws] # "OPEN" \/ awaitingResponse
       THEN UNCHANGED <<sent, pendingReq, awaitingResponse, lastFrame>>
       ELSE /\ sent' = Send(readyState, ws, "frame")
            /\ lastFrame' = Frame
            /\ pendingReq' = [pendingReq EXCEPT ![ws] = @ + 1]
            /\ awaitingResponse' = TRUE
    /\ UNCHANGED <<stream, ws, active, sendTimer, rafId, pc, readyState,
                   established, liveTracks, timers, rafPending, stopped,
                   shownView, confThreshold, hudVars, drawVars, feedVars,
                   winVars>>

\* ---------------------------------------------------------------------
\* render() of a HUD loop, after clearRect: drawClassifications reads
\* cls.confidence of every item, drawDetections destructures det.bbox of
\* every item; on an item that has none this throws a TypeError, and the
\* scanline, the border and the next requestAnimationFrame are not reached.
RenderThrows ==
    IF currentMode = "classify"
    THEN \E i \in DOMAIN currentDetections : currentDetections[i] = "null"
    ELSE \E i \in DOMAIN currentDetections : currentDetections[i] # "box"

\* drawDetections scaled by the capture size.
BoxRect_CaptureSize(b, cw, ch) ==
    <<b[1] * CAPTURE_W, b[2] * CAPTURE_H, b[3] * CAPTURE_W, b[4] * CAPTURE_H>>

\* The rectangle drawDetections fills for a detection with bbox b (tenths)
\* on a surface of cw by ch pixels: fillRect(x1, y1, bw, bh), in tenths of
\* a pixel.
BoxRect(b, cw, ch) ==
    LET x1 == b[1] * cw
        y1 == b[2] * ch
        x2 == b[3] * cw
        y2 == b[4] * ch
        bw == x2 - x1
        bh == y2 - y1
    IN  <<x1, y1, x1 + bw, y1 + bh>>

\* The geometry of one render(): the canvas takes the size of its container,
\* is cleared, and the box of a detection is filled; boxes are drawn in
\* list order up to the first item that makes the draw throw.
RenderGeometry ==
    IF ~active
    THEN UNCHANGED <<canvasSize, boxRect>>
    ELSE /\ canvasSize' = parentSize
         /\ boxRect' = IF /\ currentMode # "classify"
                          /\ currentDetections # <<>>
                          /\ currentDetections[1] = "box"
                       THEN BoxRect(bbox, parentSize[1], parentSize[2])
                       ELSE NoRect

\* The container of the overlay is resized to sz.
Resize(sz) ==
    /\ parentSize' = sz
    /\ UNCHANGED <<progVars, pc, readyState, established, liveTracks, timers,
                   rafPending, sent, pendingReq, stopped, shownView,
                   confThreshold, lastFrame, hudVars, bbox, canvasSize,
                   boxRect, feedVars, winVars>>

\* One display refresh: the browser runs the requested callbacks of all HUD
\* loops in request order; render() returns when inactive, else draws and
\* requests the next frame.  What is drawn is RenderGeometry.
AnimationFrame ==
    /\ rafPending # <<>>
    /\ IF ~active \/ RenderThrows
       THEN /\ rafPending' = <<>>
            /\ UNCHANGED rafId
       ELSE /\ rafId' = rafPending[Len(rafPending)]
            /\ UNCHANGED rafPending
    /\ UNCHANGED <<stream, ws, active, awaitingResponse, sendTimer, pc,
                   readyState, established, liveTracks, timers, sent,
                   pendingReq, stopped, shownView, confThreshold, lastFrame,
                   hudVars, bbox, parentSize, feedVars, winVars>>

\* ---------------------------------------------------------------------
\* Click on the mode button of mode m.

\* A mode button that keeps the detection list.
ModeClick_KeepsList(m) ==
    /\ mode' = m
    /\ UNCHANGED <<progVars, pc, readyState, established, liveTracks, timers,
                   rafPending, sent, pendingReq, stopped, shownView,
                   confThreshold, lastFrame, currentDetections, currentMode,
                   frameCount, currentFps, lastInferenceMs, sinceReset,
                   fpsEl, inferenceEl, objectsEl, confidenceEl, lastResult,
                   drawVars, feedVars, winVars>>

ModeClick(m) ==
    /\ mode' = m
    /\ currentDetections' = <<>>
    /\ lastResult' = NoResult
    /\ UNCHANGED <<progVars, pc, readyState, established, liveTracks, timers,
                   rafPending, sent, pendingReq, stopped, shownView,
                   confThreshold, lastFrame, currentMode, frameCount,
                   currentFps, lastInferenceMs, sinceReset, fpsEl,
                   inferenceEl, objectsEl, confidenceEl, drawVars, feedVars,
                   winVars>>

\* ---------------------------------------------------------------------
\* 'input' on the confidence slider at position v (percent):
\* confThreshold = parseInt(confSlider.value) / 100.
Slider(v) ==
    /\ confThreshold' = v
    /\ UNCHANGED <<progVars, pc, readyState, established, liveTracks, timers,
                   rafPending, sent, pendingReq, stopped, shownView,
                   lastFrame, hudVars, drawVars, feedVars, winVars>>

\* ---------------------------------------------------------------------
\* Spec: any interleaving of starts, stops and socket events; every result
\* is PlainResult and arrives a second or more after the one before.  Which
\* view is shown is not followed.

Next ==
    \/ ClickWhenInactive
    \/ ClickWhenActive
    \/ \E view \in Views : ViewChange(view) /\ UNCHANGED shownView
    \/ \E c \in Starts : GetUserMediaResolved(c)
    \/ \E c \in Starts : GetUserMediaRejected(c)
    \/ \E c \in Starts : TokenFetched(c)
    \/ \E c \in Starts : TokenFailed(c)
    \/ \E s \in Starts : SocketOpen(s)
    \/ \E s \in Starts, msg \in SpecMsgs : onmessage(s, msg, TRUE)
    \/ \E s \in Starts, failed \in BOOLEAN : SocketClosed(s, failed)
    \/ \E t \in Starts : Tick(t)
    \/ AnimationFrame /\ UNCHANGED <<canvasSize, boxRect>>

Spec == Init /\ [][Next]_vars

\* ---------------------------------------------------------------------
\* SpecHUD: one camera session (the user clicks Start once); the service
\* sends any message of Msgs, at any pace; the user clicks the mode buttons.

NextHUD ==
    \/ pc[1] = "idle" /\ ClickWhenInactive
    \/ ClickWhenActive
    \/ \E view \in Views : ViewChange(view) /\ UNCHANGED shownView
    \/ \E c \in Starts : GetUserMediaResolved(c)
    \/ \E c \in Starts : GetUserMediaRejected(c)
    \/ \E c \in Starts : TokenFetched(c)
    \/ \E c \in Starts : TokenFailed(c)
    \/ \E s \in Starts : SocketOpen(s)
    \/ \E s \in Starts, msg \in Msgs, elapsed \in BOOLEAN :
           onmessage(s, msg, elapsed)
    \/ \E s \in Starts, failed \in BOOLEAN : SocketClosed(s, failed)
    \/ \E t \in Starts : Tick(t)
    \/ AnimationFrame /\ UNCHANGED <<canvasSize, boxRect>>
    \/ \E m \in Modes : ModeClick(m)

SpecHUD == Init /\ [][NextHUD]_vars

\* ---------------------------------------------------------------------
\* SpecView: Spec with the view that is shown followed: a nex:viewchange
\* event is dispatched when the application shows a view, and the start
\* button, which is part of the vision view, is clicked only while that view
\* is shown.

NextView ==
    \/ shownView = "vision" /\ ClickWhenInactive
    \/ shownView = "vision" /\ ClickWhenActive
    \/ \E view \in Views : ViewChange(view) /\ shownView' = view
    \/ \E c \in Starts : GetUserMediaResolved(c)
    \/ \E c \in Starts : GetUserMediaRejected(c)
    \/ \E c \in Starts : TokenFetched(c)
    \/ \E c \in Starts : TokenFailed(c)
    \/ \E s \in Starts : SocketOpen(s)
    \/ \E s \in Starts, msg \in SpecMsgs : onmessage(s, msg, TRUE)
    \/ \E s \in Starts, failed \in BOOLEAN : SocketClosed(s, failed)
    \/ \E t \in Starts : Tick(t)
    \/ AnimationFrame /\ UNCHANGED <<canvasSize, boxRect>>

SpecView == Init /\ [][NextView]_vars

\* ---------------------------------------------------------------------
\* SpecCtl: one camera session in which the user moves the confidence
\* slider and clicks the mode buttons while frames are sent and answered.

NextCtl ==
    \/ pc[1] = "idle" /\ ClickWhenInactive
    \/ ClickWhenActive
    \/ \E c \in Starts : GetUserMediaResolved(c)
    \/ \E c \in Starts : TokenFetched(c)
    \/ \E s \in Starts : SocketOpen(s)
    \/ \E s \in Starts, msg \in CtlMsgs : onmessage(s, msg, TRUE)
    \/ \E s \in Starts : SocketClosed(s, FALSE)
    \/ \E t \in Starts : Tick(t)
    \/ AnimationFrame /\ UNCHANGED <<canvasSize, boxRect>>
    \/ \E m \in Modes : ModeClick(m)
    \/ \E v \in SliderValues : Slider(v)

SpecCtl == Init /\ [][NextCtl]_vars

\* ---------------------------------------------------------------------
\* SpecFps: one camera session with the clock followed: time passes in
\* steps of ClockStep, and a result is handled with the value of
\* performance.now() at its arrival.

\* ClockStep ms pass.
Clock ==
    /\ sinceReset < MaxAge
    /\ sinceReset' = sinceReset + ClockStep
    /\ UNCHANGED <<progVars, pc, readyState, established, liveTracks, timers,
                   rafPending, sent, pendingReq, stopped, shownView,
                   confThreshold, lastFrame, mode, currentDetections,
                   currentMode, frameCount, currentFps, lastInferenceMs,
                   fpsEl, inferenceEl, objectsEl, confidenceEl, lastResult,
                   drawVars, feedVars, winVars>>

NextFps ==
    \/ pc[1] = "idle" /\ ClickWhenInactive
    \/ ClickWhenActive
    \/ \E c \in Starts : GetUserMediaResolved(c)
    \/ \E c \in Starts : TokenFetched(c)
    \/ \E s \in Starts : SocketOpen(s)
    \/ \E s \in Starts, msg \in CtlMsgs :
           onmessage(s, msg, sinceReset >= FpsWindow)
    \/ \E t \in Starts : Tick(t)
    \/ Clock

SpecFps == Init /\ [][NextFps]_vars

\* ---------------------------------------------------------------------
\* SpecStats: one camera session whose results carry every list of
\* confidences.

NextStats ==
    \/ pc[1] = "idle" /\ ClickWhenInactive
    \/ ClickWhenActive
    \/ \E c \in Starts : GetUserMediaResolved(c)
    \/ \E c \in Starts : TokenFetched(c)
    \/ \E s \in Starts : SocketOpen(s)
    \/ \E s \in Starts, msg \in StatMsgs : onmessage(s, msg, TRUE)
    \/ \E s \in Starts : SocketClosed(s, FALSE)
    \/ \E t \in Starts : Tick(t)
    \/ AnimationFrame /\ UNCHANGED <<canvasSize, boxRect>>

SpecStats == Init /\ [][NextStats]_vars

\* ---------------------------------------------------------------------
\* SpecDraw: one camera session whose detections have any bbox of BBoxes, on
\* an overlay whose container has any size of Sizes and is resized at any
\* time; every display refresh draws.

InitDraw ==
    /\ InitSession
    /\ bbox \in BBoxes
    /\ parentSize \in Sizes

NextDraw ==
    \/ pc[1] = "idle" /\ ClickWhenInactive
    \/ ClickWhenActive
    \/ \E c \in Starts : GetUserMediaResolved(c)
    \/ \E c \in Starts : TokenFetched(c)
    \/ \E s \in Starts : SocketOpen(s)
    \/ \E s \in Starts, msg \in CtlMsgs : onmessage(s, msg, TRUE)
    \/ \E t \in Starts : Tick(t)
    \/ AnimationFrame /\ RenderGeometry
    \/ \E sz \in Sizes : Resize(sz)

SpecDraw == InitDraw /\ [][NextDraw]_vars

\* =====================================================================
\* The conversation feed (the second IIFE of nex-history.js).  Ids are
\* 'cf-' + Date.now() + '-' + six random characters; the model numbers them
\* in the order they are generated.

MAX_VISIBLE == 5
\* OPACITY_LEVELS, in hundredths.
OPACITY_LEVELS == <<100, 85, 65, 40, 20>>
EntryTypes == {"action", "thinking", "success"}

\* The state of the feed as one value; ret is what the last call returned.
Feed == [entries |-> entries, activeThinking |-> activeThinking,
         idCount |-> idCount, feedEls |-> feedEls, ret |-> NULL]

\* removeEntry(id) on the entries es.
removeEntry(es, id) == SelectSeq(es, LAMBDA e : e.id # id)

\* render(): the number of elements it leaves in the feed: an entry whose
\* index has no opacity level (OPACITY_LEVELS[index] ?? 0) is not rendered.
Rendered(es) ==
    Cardinality({i \in 1..Len(es) :
                   (IF i \in DOMAIN OPACITY_LEVELS THEN OPACITY_LEVELS[i]
                                                   ELSE 0) # 0})

\* addEntry that does not trim the list.
addEntry_NoTrim(f, type) ==
    LET es0 == IF f.activeThinking # NULL
               THEN removeEntry(f.entries, f.activeThinking)
               ELSE f.entries
        id == f.idCount + 1
        es1 == <<[id |-> id, type |-> type]>> \o es0
    IN  [entries |-> es1, activeThinking |-> NULL, idCount |-> id,
         feedEls |-> Rendered(es1), ret |-> id]

\* addEntry that leaves the active thinking entry in the list.
addEntry_KeepsThinking(f, type) ==
    LET id == f.idCount + 1
        es1 == <<[id |-> id, type |-> type]>> \o f.entries
        es2 == IF Len(es1) > MAX_VISIBLE + 1
               THEN SubSeq(es1, 1, MAX_VISIBLE + 1)
               ELSE es1
    IN  [entries |-> es2, activeThinking |-> NULL, idCount |-> id,
         feedEls |-> Rendered(es2), ret |-> id]

\* addEntry(type, title, lines, processingTimeMs) in the feed state f.
addEntry(f, type) ==
    LET es0 == IF f.activeThinking # NULL
               THEN removeEntry(f.entries, f.activeThinking)
               ELSE f.entries
        id == f.idCount + 1
        es1 == <<[id |-> id, type |-> type]>> \o es0
        es2 == IF Len(es1) > MAX_VISIBLE + 1
               THEN SubSeq(es1, 1, MAX_VISIBLE + 1)
               ELSE es1
    IN  [entries |-> es2, activeThinking |-> NULL, idCount |-> id,
         feedEls |-> Rendered(es2), ret |-> id]

\* if (activeThinking) removeEntry(activeThinking);
\* activeThinking = addEntry('thinking', ...): the body of showThinking and
\* of the nex:tool.executing listener.
showThinking(f) ==
    LET f0 == IF f.activeThinking # NULL
              THEN [f EXCEPT !.entries = removeEntry(@, f.activeThinking)]
              ELSE f
        f1 == addEntry(f0, "thinking")
    IN  [f1 EXCEPT !.activeThinking = f1.ret]

\* The listener leaves the feed in state f.
SetFeed(f) ==
    /\ entries' = f.entries
    /\ activeThinking' = f.activeThinking
    /\ idCount' = f.idCount
    /\ feedEls' = f.feedEls
    /\ UNCHANGED <<visionVars, winVars>>

\* nex:system.ready
SystemReady ==
    /\ idCount + 1 <= MaxIds
    /\ SetFeed(addEntry(Feed, "success"))
    /\ UNCHANGED currentServicesUsed

\* nex:mic.transcribed
MicTranscribed ==
    /\ idCount + 2 <= MaxIds
    /\ currentServicesUsed' = {"stt"}
    /\ SetFeed(showThinking(addEntry(Feed, "action")))

\* nex:user.command
UserCommand ==
    /\ idCount + 2 <= MaxIds
    /\ currentServicesUsed' = {}
    /\ SetFeed(showThinking(addEntry(Feed, "action")))

\* nex:tool.executing
ToolExecuting ==
    /\ idCount + 1 <= MaxIds
    /\ currentServicesUsed' = currentServicesUsed \cup {"tool"}
    /\ SetFeed(showThinking(Feed))

\* nex:command.response; internal: the command starts with '_'.
CommandResponse(internal) ==
    /\ idCount + 1 <= MaxIds
    /\ IF internal THEN UNCHANGED vars
                   ELSE /\ SetFeed(addEntry(Feed, "action"))
                        /\ currentServicesUsed' = {}

NextFeed ==
    \/ SystemReady
    \/ MicTranscribed
    \/ UserCommand
    \/ ToolExecuting
    \/ \E internal \in BOOLEAN : CommandResponse(internal)

SpecFeed == Init /\ [][NextFeed]_vars

\* =====================================================================
\* The desktop window (desktop/src/main/window.ts, the module of lines
\* 1-102, and preload.ts).  Every action is one callback of the main
\* process.  setFullScreen is taken to act at once, as isFullScreen()
\* reports it on Windows and Linux.

\* The state of the window as one value.
Win == [mainWindow |-> mainWindow, isVisible |-> isVisible,
        isFullScreen |-> isFullScreen, isMaximized |-> isMaximized,
        ipcListeners |-> ipcListeners, windowsCreated |-> windowsCreated]

\* createWindow(): a new BrowserWindow, shown and not full screen, and
\* one more listener of ipcMain on 'toggle-fullscreen'.
createWindow(w) ==
    [mainWindow |-> w.windowsCreated + 1, isVisible |-> TRUE,
     isFullScreen |-> FALSE, isMaximized |-> FALSE,
     ipcListeners |-> w.ipcListeners + 1,
     windowsCreated |-> w.windowsCreated + 1]

\* toggleFullscreen()
toggleFullscreen(w) ==
    IF w.mainWindow = NULL THEN w
    ELSE [w EXCEPT !.isFullScreen = ~w.isFullScreen]

\* maximizeWindow()
maximizeWindow(w) ==
    IF w.mainWindow = NULL THEN w
    ELSE [w EXCEPT !.isMaximized = ~w.isMaximized]

\* ipcMain emits an event: its n listeners run one after the other.
RECURSIVE emit(_, _)
emit(w, n) == IF n = 0 THEN w ELSE emit(toggleFullscreen(w), n - 1)

\* The callback leaves the window in state w.
SetWin(w) ==
    /\ mainWindow' = w.mainWindow
    /\ isVisible' = w.isVisible
    /\ isFullScreen' = w.isFullScreen
    /\ isMaximized' = w.isMaximized
    /\ ipcListeners' = w.ipcListeners
    /\ windowsCreated' = w.windowsCreated
    /\ UNCHANGED <<visionVars, feedVars>>

\* toggleWindow()
toggleWindow ==
    /\ IF mainWindow = NULL
       THEN /\ windowsCreated < MaxWindows
            /\ SetWin(createWindow(Win))
       ELSE SetWin([Win EXCEPT !.isVisible = ~isVisible])
    /\ UNCHANGED ipcSent

\* The window is closed: mainWindow.on('closed').
Closed ==
    /\ mainWindow # NULL
    /\ SetWin([Win EXCEPT !.mainWindow = NULL, !.isVisible = FALSE,
                          !.isFullScreen = FALSE, !.isMaximized = FALSE])
    /\ UNCHANGED ipcSent

\* The global shortcut CmdOrCtrl+Shift+F.
Shortcut ==
    /\ windowsCreated > 0
    /\ SetWin(toggleFullscreen(Win))
    /\ UNCHANGED ipcSent

\* The tray menu calls maximizeWindow().
Maximize ==
    /\ windowsCreated > 0
    /\ SetWin(maximizeWindow(Win))
    /\ UNCHANGED ipcSent

\* The page calls nexAPI.toggleFullscreen(): ipcRenderer.send
\* ('toggle-fullscreen') reaches ipcMain.
IpcToggleFullscreen ==
    /\ mainWindow # NULL
    /\ ipcSent < MaxIpc
    /\ ipcSent' = ipcSent + 1
    /\ SetWin(emit(Win, ipcListeners))

NextWin ==
    \/ toggleWindow
    \/ Closed
    \/ Shortcut
    \/ Maximize
    \/ IpcToggleFullscreen

SpecWin == Init /\ [][NextWin]_vars

\* =====================================================================
\* Properties

\* A frame message is sent in this step.
FrameSent == sent' # sent /\ framesSent' # framesSent
\* The step is a capture tick, the handling of an inbound message (of
\* Spec), the close of a socket.
TickStep ==
    /\ UNCHANGED <<readyState, timers, ws, active>>
    /\ \E t \in Starts : Tick(t)
MessageStep ==
    /\ ~awaitingResponse'
    /\ UNCHANGED <<readyState, sent>>
    /\ \E s \in Starts, msg \in SpecMsgs : onmessage(s, msg, TRUE)
\* Only the close of a socket's connection makes its readyState CLOSED.
CloseStep ==
    \E s \in Starts : readyState[s] # "CLOSED" /\ readyState'[s] = "CLOSED"
SocketLive(s) == readyState[s] \in {"CONNECTING", "OPEN"}
\* The capture timer of the session is running with everything but the
\* backpressure flag letting a tick send.
TickCouldSend ==
    /\ active /\ ws # NULL /\ readyState[ws] = "OPEN"
    /\ sendTimer \in timers /\ framesSent < MaxFrames

\* C1: a capture tick that fires while awaitingResponse is true sends no
\* message and leaves the flag as it was.
C1_TickSkipsWhileAwaiting ==
    [][(awaitingResponse /\ TickStep) => (sent' = sent /\ awaitingResponse')]_vars

\* C1 witness: a tick fires on an open socket of an active session while a
\* request is in flight.
C1_Witness == awaitingResponse /\ TickCouldSend /\ pendingReq[ws] = 1

\* C2: on every socket at most one frame is waiting for its vision.result,
\* whatever ticks and inbound messages occurred.
C2_AtMostOneOutstanding == \A s \in Starts : pendingReq[s] <= 1

\* C3: handling a vision.result leaves awaitingResponse false, only a tick
\* sets it again, and a tick that finds the session active, the socket open
\* and the flag false sends a frame.
C3_ResultReleasesSlot ==
    [][ /\ (pendingReq' # pendingReq
              /\ \E s \in Starts : onmessage(s, PlainResult, TRUE))
             => ~awaitingResponse'
        /\ (~awaitingResponse /\ awaitingResponse') => TickStep
        /\ (~awaitingResponse /\ active /\ ws # NULL /\ readyState[ws] = "OPEN"
              /\ TickStep)
             => sent'[ws] = Append(sent[ws], "frame") ]_vars

\* C3 witness: the result of the only frame sent has been handled, the slot
\* is free and the next tick of the session can send.
C3_Witness ==
    /\ TickCouldSend /\ ~awaitingResponse
    /\ FramesOn(ws) = 1 /\ pendingReq[ws] = 0

\* C4: whenever startCamera is invoked, awaitingResponse is false.
C4_StartBeginsClean ==
    [][(\E c \in Starts : StartInvoked(c)) => ~awaitingResponse]_vars

\* C5: from stopCamera until start is invoked again no capture timer, HUD
\* loop, device track or socket is live.
C5_StopIsCompleteTeardown ==
    stopped => /\ timers = {}
               /\ rafPending = <<>>
               /\ liveTracks = {}
               /\ \A s \in Starts : ~SocketLive(s)

\* C6: a socket's close (with or without error) leaves ws null and
\* awaitingResponse false and creates no socket; ws becomes non-null again
\* only by connectVisionWS in the start sequence, and no frame is sent while
\* it is null.
C6_CloseTearsDownNoReconnect ==
    [][ /\ CloseStep => /\ ws' = NULL /\ ~awaitingResponse'
                        /\ \A s \in Starts : ~SocketLive(s) => ~SocketLive(s)'
        /\ (ws = NULL /\ ws' # NULL) => \E c \in Starts : TokenFetched(c)
        /\ ws = NULL => ~FrameSent ]_vars

\* C6 witness: the socket of a streaming session has closed; the session is
\* still active and its capture timer still runs.
C6_Witness ==
    /\ ws = NULL /\ active /\ sendTimer \in timers /\ ~awaitingResponse
    /\ \E s \in Starts : readyState[s] = "CLOSED" /\ FramesOn(s) >= 1

\* C7: while a request is in flight, a step that is neither an inbound
\* message nor a socket close keeps awaitingResponse true and sends no frame.
C7_NoDeadline ==
    [][(awaitingResponse /\ ~MessageStep /\ ~CloseStep)
         => (awaitingResponse' /\ ~FrameSent)]_vars

\* C7 witness: a frame is unanswered on the open socket of an active session
\* whose capture timer keeps firing.
C7_Witness ==
    /\ awaitingResponse /\ TickCouldSend
    /\ FramesOn(ws) = 1 /\ pendingReq[ws] = 1

\* C8: a tick sends only when the session is active and ws is an open
\* socket, a tick that finds otherwise changes nothing, and no frame is sent
\* from stopCamera until start is invoked again.
C8_TickNeedsActiveOpenSocket ==
    [][ /\ (TickStep /\ (~active \/ ws = NULL \/ readyState[ws] # "OPEN"))
             => UNCHANGED vars
        /\ FrameSent => (active /\ ws # NULL /\ readyState[ws] = "OPEN")
        /\ stopped => ~FrameSent ]_vars

\* C9: only a capture tick sends a frame, and one tick sends one frame.
C9_FramesOnlyByTicks ==
    [][FrameSent => (TickStep /\ framesSent' = framesSent + 1)]_vars

\* C9 witness: a frame was sent and answered while the session kept
\* running, and nothing was sent in its place.
C9_Witness ==
    /\ active /\ ws # NULL /\ readyState[ws] = "OPEN" /\ sendTimer \in timers
    /\ ~awaitingResponse /\ framesSent = 1 /\ pendingReq[ws] = 0
    /\ sent[ws] = <<"auth", "frame">>

\* C10: on every socket the first message sent is the auth message, and a
\* socket whose connection was established got exactly one auth message.
C10_AuthFirstAndOnce ==
    \A s \in Starts :
        /\ sent[s] # <<>> => sent[s][1] = "auth"
        /\ AuthsOn(s) <= 1
        /\ s \in established => AuthsOn(s) = 1

\* C11: a failed token fetch aborts the start: the step that handles the
\* failure opens no socket, sends nothing and starts neither the capture
\* timer nor the HUD loop.
C11_TokenFailureAbortsStart ==
    [][(\E c \in Starts : TokenFailed(c))
         => /\ ws' = NULL /\ readyState' = readyState /\ sent' = sent
            /\ timers' = timers /\ rafPending' = rafPending ]_vars

\* C12: the step in which a start ends on a rejected getUserMedia (pc goes
\* from "perm" to "done") changes nothing else: the session stays as it
\* was, no socket, timer or HUD loop is created and nothing is sent; an
\* ended start never resumes.
C12_CameraFailureStartsNothing ==
    [][\A c \in Starts :
         /\ (pc[c] = "perm" /\ pc'[c] = "done")
              => UNCHANGED <<progVars, readyState, established, liveTracks,
                             timers, rafPending, sent, pendingReq, hudVars>>
         /\ pc[c] = "done" => pc'[c] = "done" ]_vars

\* C12 witness: the only start invoked ended on a rejected getUserMedia;
\* the session is inactive and nothing was created.
C12_Witness ==
    /\ pc[1] = "done" /\ \A c \in Starts : c > 1 => pc[c] = "idle"
    /\ ~active /\ ~stopped /\ ws = NULL /\ stream = NULL
    /\ timers = {} /\ rafPending = <<>>
    /\ \A s \in Starts : readyState[s] = "none" /\ sent[s] = <<>>

\* ---------------------------------------------------------------------
\* Detection state, renderer and stats (SpecHUD)

\* A message the client cannot use: text that does not parse, or a result
\* whose list has an item that is not an object with class and confidence.
Malformed(msg) ==
    \/ msg.type = "garbage"
    \/ msg.type = "result" /\ HasNull(msg.items)
\* The list handleVisionResult makes of a result.
Accepted(msg) ==
    IF msg.mode = "classify" THEN Classified(msg.items) ELSE msg.items
\* A HUD loop of the active session has a draw requested.
Drawing == active /\ rafPending # <<>>

\* C13: handling a malformed message leaves the detection list, the result
\* mode, the latency and the stats as they were, leaves a running render
\* loop able to draw, and leaves awaitingResponse false.
C13_MalformedMessageDropped ==
    [][\A s \in Starts, msg \in Msgs, elapsed \in BOOLEAN :
         (Malformed(msg) /\ onmessage(s, msg, elapsed))
           => /\ UNCHANGED <<currentDetections, currentMode, lastInferenceMs,
                             frameCount, currentFps, fpsEl, inferenceEl>>
              /\ ~RenderThrows => ~RenderThrows'
              /\ ~awaitingResponse' ]_vars

\* C14: handling a message of another type than vision.result leaves the
\* detection list, the result mode, the latency, the frame counter and the
\* displayed fps unchanged.
C14_OtherTypeIgnored ==
    [][(\E s \in Starts : onmessage(s, OtherMsg, TRUE))
         => UNCHANGED <<currentDetections, currentMode, lastInferenceMs,
                        frameCount, currentFps, fpsEl, inferenceEl>>]_vars

\* C14 witness: a message that is not a result was handled while a frame was
\* unanswered, and the detections of the result before it are still held.
C14_Witness ==
    /\ active /\ ws # NULL /\ readyState[ws] = "OPEN"
    /\ ~awaitingResponse /\ pendingReq[ws] = 1
    /\ currentDetections # <<>> /\ lastResult # NoResult

\* C15: the detection list is empty or exactly the list made of the most
\* recently accepted result, and then currentMode and lastInferenceMs are
\* those of that result.
C15_DetectionStateOfOneResult ==
    \/ currentDetections = <<>>
    \/ /\ lastResult # NoResult
       /\ currentDetections = Accepted(lastResult)
       /\ currentMode = lastResult.mode
       /\ lastInferenceMs = lastResult.inference_ms

\* C16: a step that changes the selected mode, and every mode-button click,
\* leaves the detection list empty, so that a draw right after it finds no
\* item to paint.
C16_ModeChangeClearsList ==
    [][(mode' # mode \/ \E m \in Modes : ModeClick(m))
         => currentDetections' = <<>> /\ ~RenderThrows']_vars

\* C16 witness: detections were received in detect mode, the user switched
\* to classify, and the HUD loop is about to draw the emptied list.
C16_Witness ==
    /\ Drawing /\ mode = "classify" /\ currentMode = "detect"
    /\ lastInferenceMs # 0 /\ currentDetections = <<>> /\ lastResult = NoResult

\* C17: whenever a draw is due and the detection list holds items, the
\* routine render() chooses (by currentMode) is the one of the mode of the
\* result the items came in.
C17_RoutineMatchesItems ==
    (Drawing /\ currentDetections # <<>>) => currentMode = lastResult.mode

\* C18: a display refresh of an active session never ends its HUD loops,
\* whatever items the detection list holds.
C18_RenderSurvivesBadGeometry ==
    [][(active /\ AnimationFrame) => rafPending' = rafPending]_vars

\* C19: while the session is active a draw is requested for the next
\* display refresh, whatever the state of the socket.
C19_ActiveSessionDraws == active => rafPending # <<>>

\* C20: from stopCamera until the next start the detection list is empty
\* and the frame counter, the displayed fps and the displayed latency are
\* zero.
C20_StopResetsStats ==
    stopped => /\ currentDetections = <<>>
               /\ frameCount = 0
               /\ fpsEl = 0
               /\ inferenceEl = 0

\* ---------------------------------------------------------------------
\* Ownership of the socket, the stream and the timer (Spec)

\* The sockets that are connecting or open and were not asked to close.
LiveSockets == {s \in Starts : SocketLive(s)}

\* C21: at most one socket created by the client is connecting or open
\* without having been asked to close.
C21_OneLiveSocket == Cardinality(LiveSockets) <= 1

\* C22: while another view than the vision view is shown the camera is not
\* active and no stream, socket or capture timer is live.
C22_ViewChangeDestroysSession ==
    shownView # "vision" => /\ ~active
                            /\ liveTracks = {}
                            /\ LiveSockets = {}
                            /\ timers = {}

\* ---------------------------------------------------------------------
\* Mode and threshold of the frames (SpecCtl)

\* C23: a frame message carries the mode and the threshold the module holds
\* when its tick fires; a move of the slider changes the threshold only: it
\* sends nothing and leaves the detection list, the result mode and the
\* stats as they were; a result received is put in the detection list
\* whole, whatever the threshold.
C23_FrameCarriesModeAndThreshold ==
    [][ /\ FrameSent
             => lastFrame' = [mode |-> mode, confidence |-> confThreshold]
        /\ confThreshold' # confThreshold
             => UNCHANGED <<sent, lastFrame, awaitingResponse,
                            currentDetections, currentMode, lastInferenceMs,
                            frameCount, currentFps, fpsEl, inferenceEl>>
        /\ \A msg \in CtlMsgs :
             (lastResult' # lastResult
                /\ \E s \in Starts : onmessage(s, msg, TRUE))
               => currentDetections' = msg.items ]_vars

\* C23 witness: detections are held, the user chose classify and moved the
\* slider to 60, and the frame sent after that carries both.
C23_Witness ==
    /\ active /\ awaitingResponse /\ currentDetections # <<>>
    /\ confThreshold = 60 /\ mode = "classify"
    /\ lastFrame = [mode |-> "classify", confidence |-> 60]

\* ---------------------------------------------------------------------
\* The fps window (SpecFps)

\* A result is handled in this step.
ResultStep ==
    /\ pendingReq' # pendingReq
    /\ \E s \in Starts, msg \in CtlMsgs :
           onmessage(s, msg, sinceReset >= FpsWindow)

\* C24: a result that arrives less than FpsWindow after the last reset adds
\* one to the frame counter; a result that arrives later makes the counter
\* zero and displays as fps the number of results that arrived within the
\* window that has ended: the results counted so far, and this one when it
\* arrives exactly at the end of the window.
C24_FpsIsResultsInWindow ==
    [][ResultStep =>
          IF sinceReset < FpsWindow
          THEN frameCount' = frameCount + 1 /\ currentFps' = currentFps
          ELSE /\ frameCount' = 0
               /\ fpsEl' = currentFps'
               /\ currentFps' = frameCount
                                  + (IF sinceReset = FpsWindow THEN 1 ELSE 0)
       ]_vars

\* ---------------------------------------------------------------------
\* Object count and average confidence (SpecStats)

\* The sum of the numbers of a sequence.
RECURSIVE Total(_)
Total(cs) == IF cs = <<>> THEN 0 ELSE Head(cs) + Total(Tail(cs))
\* p is the arithmetic mean of the numbers cs, rounded to a whole number
\* (halves up): p - 1/2 <= Total / n < p + 1/2.
IsRoundedMean(p, cs) ==
    LET n == Len(cs)
    IN  2 * n * p - n <= 2 * Total(cs) /\ 2 * Total(cs) < 2 * n * p + n

\* C25: handling a result whose items are well formed displays as object
\* count the length of the detection list, which has one entry per item of
\* the result, and as average confidence the arithmetic mean of the items'
\* confidences (in percent, rounded), 0 for an empty list, and reaches the
\* end of the handler (the latency of the result is displayed).
C25_CountAndMeanConfidence ==
    [][\A msg \in StatMsgs :
         (pendingReq' # pendingReq
            /\ \E s \in Starts : onmessage(s, msg, TRUE))
           => /\ objectsEl' = Len(currentDetections')
              /\ Len(currentDetections') = Len(msg.items)
              /\ IF msg.items = <<>>
                 THEN confidenceEl' = 0
                 ELSE IsRoundedMean(confidenceEl', msg.conf)
              /\ inferenceEl' = msg.inference_ms ]_vars

\* C25 witness: a result with two items of confidence 0.45 and 0.90 was
\* handled: 2 objects, 68% (67.5 rounded).
C25_Witness ==
    /\ Len(currentDetections) = 2 /\ objectsEl = 2 /\ confidenceEl = 68
    /\ lastResult # NoResult /\ Total(lastResult.conf) = 135

\* ---------------------------------------------------------------------
\* Geometry of the boxes (SpecDraw)

\* C26: a display refresh of an active session that draws a detection
\* leaves the canvas at the size of its container and fills the rectangle
\* (x1*cw, y1*ch)-(x2*cw, y2*ch) of the detection's bbox on that size; for
\* bbox (0.1, 0.1, 0.5, 0.6) on 640 by 480 it is (64, 48)-(320, 288).
C26_BoxScaledToSurface ==
    [][(active /\ AnimationFrame /\ boxRect' # NoRect)
         => /\ canvasSize' = parentSize
            /\ boxRect' = <<bbox[1] * canvasSize'[1],
                            bbox[2] * canvasSize'[2],
                            bbox[3] * canvasSize'[1],
                            bbox[4] * canvasSize'[2]>>
            /\ (bbox = <<1, 1, 5, 6>> /\ canvasSize' = <<640, 480>>)
                 => boxRect' = <<640, 480, 3200, 2880>> ]_vars

\* C26 witness: the box of bbox (0.1, 0.1, 0.5, 0.6) was drawn after the
\* overlay had been resized to 1280 by 720.
C26_Witness ==
    /\ active /\ bbox = <<1, 1, 5, 6>> /\ canvasSize = <<1280, 720>>
    /\ boxRect = <<1280, 720, 6400, 4320>>

\* ---------------------------------------------------------------------
\* Events of earlier sockets (Spec)

\* An event (close, with or without error, or message) of a socket s that
\* is not the one ws refers to is handled in this step.
StaleEvent(s) ==
    /\ ws # NULL /\ s # ws
    /\ \/ \E failed \in BOOLEAN : SocketClosed(s, failed)
       \/ \E msg \in SpecMsgs : onmessage(s, msg, TRUE)

\* C27: an event of a socket of an earlier session leaves the socket
\* reference, the ready state of the session's socket and awaitingResponse
\* as they were.
C27_StaleEventsLeaveSession ==
    [][\A s \in Starts :
         StaleEvent(s) => /\ ws' = ws
                          /\ readyState'[ws] = readyState[ws]
                          /\ awaitingResponse' = awaitingResponse ]_vars

\* C28: at most one capture timer and at most one camera stream are live.
C28_OneTimerOneStream ==
    /\ Cardinality(timers) <= 1
    /\ Cardinality(liveTracks) <= 1

\* ---------------------------------------------------------------------
\* The conversation feed (SpecFeed)

\* C29: the feed holds at most MAX_VISIBLE + 1 = 6 entries, newest first
\* (ids in the order of creation, latest at index 0), and at most 5 of them
\* are rendered.
C29_FeedBounded ==
    /\ Len(entries) <= MAX_VISIBLE + 1
    /\ Len(entries) <= 6
    /\ \A i, j \in DOMAIN entries : i < j => entries[i].id > entries[j].id
    /\ feedEls <= 5
    /\ feedEls <= Len(entries)

\* C29 witness: more than six entries were created; six are held, the
\* newest first, and five are rendered.
C29_Witness ==
    /\ idCount > 6 /\ Len(entries) = 6 /\ feedEls = 5
    /\ entries[1].id = idCount

\* Indices of the thinking entries.
ThinkingAt == {i \in DOMAIN entries : entries[i].type = "thinking"}

\* C30: at most one entry is a thinking entry; when there is one it is at
\* index 0 and activeThinking is its id; activeThinking is null exactly
\* when there is none.
C30_OneThinkingEntry ==
    /\ Cardinality(ThinkingAt) <= 1
    /\ ThinkingAt # {} => /\ ThinkingAt = {1}
                          /\ activeThinking = entries[1].id
    /\ activeThinking = NULL <=> ThinkingAt = {}

\* C30 witness: a tool started while the feed was thinking: the thinking
\* entry was replaced and the full list has the new one at its head.
C30_Witness ==
    /\ Len(entries) = 6 /\ ThinkingAt = {1}
    /\ activeThinking = idCount /\ idCount >= 8

\* ---------------------------------------------------------------------
\* The desktop window (SpecWin)

\* C31: at most one 'toggle-fullscreen' listener is registered at any
\* time, and each toggle-fullscreen message from the page toggles the full
\* screen state of the window exactly once, also after the window was
\* closed and created again through toggleWindow.
C31_OneToggleHandler ==
    /\ [](ipcListeners <= 1)
    /\ [][ipcSent' # ipcSent => isFullScreen' # isFullScreen]_vars

====
